---- MODULE Spec2Model ----
(***************************************************************************)
(* Model of inv_trader/execution.py: the ExecutionClient base class (the   *)
(* strategy registry, the order index and the inbound event handler) and   *)
(* its two concrete clients, MockExecClient and LiveExecClient.            *)
(*                                                                         *)
(* Every method is a pure operator from the client's fields and the        *)
(* method's arguments to the fields after the call, the exception raised   *)
(* ("None" when the call returns normally) and the list of effects in the  *)
(* order the method performed them.  One action per public operation       *)
(* applies the operator to the state.                                      *)
(***************************************************************************)
EXTENDS Integers, Sequences, FiniteSets, TLC

(***************************************************************************)
(* Bounds of the model.                                                    *)
(***************************************************************************)
\* Number of distinct order ids in play.
NumOrders == 2

(***************************************************************************)
(* Input domains.                                                          *)
(***************************************************************************)
OrderIds == { "O-" \o ToString(i) : i \in 1..NumOrders }

Symbols == {"X", "Y"}

\* Objects passed as `order`: Order instances (two per id, which differ in
\* their symbol) and None, which is not an Order and has no attributes.
OrderObjs == { [cls |-> "Order", id |-> o, symbol |-> y] : o \in OrderIds, y \in Symbols }
NoneObj == [cls |-> "NoneType"]
\* An object that is not an Order but has an `id` and a `symbol`.
DuckOrder == [cls |-> "object", id |-> "O-1", symbol |-> "X"]
OrderArgs == OrderObjs \cup {NoneObj, DuckOrder}

\* Objects passed as `strategy`: three TradeStrategy instances (two of them
\* with the same name and label, hence the same str()) and None.
StrategyObjs ==
    { [cls |-> "TradeStrategy", name |-> "S-1", obj |-> 1],
      [cls |-> "TradeStrategy", name |-> "S-1", obj |-> 2],
      [cls |-> "TradeStrategy", name |-> "S-2", obj |-> 3] }
StrategyArgs == StrategyObjs \cup {NoneObj}

\* Strategy identities passed to submit_order.
StrategyIds == {"S-1", "S-2"}

\* Prices passed to modify_order.
Prices == {1, 2}

\* uuid.uuid4() draws from a random stream; two possible streams.
UuidStreams == {1, 2}

(***************************************************************************)
(* Event taxonomy (inv_trader.model.events).                               *)
(***************************************************************************)
OrderEventClasses ==
    { "OrderSubmitted", "OrderAccepted", "OrderRejected", "OrderWorking",
      "OrderExpired", "OrderModified", "OrderCancelled", "OrderCancelReject" }

OrderSubmitted(symbol, order_id, submitted_time, event_id, event_timestamp) ==
    [ cls |-> "OrderSubmitted", symbol |-> symbol, order_id |-> order_id,
      occurred_timestamp |-> submitted_time, event_id |-> event_id,
      event_timestamp |-> event_timestamp ]

OrderAccepted(symbol, order_id, accepted_time, event_id, event_timestamp) ==
    [ cls |-> "OrderAccepted", symbol |-> symbol, order_id |-> order_id,
      occurred_timestamp |-> accepted_time, event_id |-> event_id,
      event_timestamp |-> event_timestamp ]

OrderWorking(symbol, order_id, broker_order_id, working_time, event_id, event_timestamp) ==
    [ cls |-> "OrderWorking", symbol |-> symbol, order_id |-> order_id,
      broker_order_id |-> broker_order_id,
      occurred_timestamp |-> working_time, event_id |-> event_id,
      event_timestamp |-> event_timestamp ]

OrderCancelled(symbol, order_id, cancelled_time, event_id, event_timestamp) ==
    [ cls |-> "OrderCancelled", symbol |-> symbol, order_id |-> order_id,
      occurred_timestamp |-> cancelled_time, event_id |-> event_id,
      event_timestamp |-> event_timestamp ]

OrderModified(symbol, order_id, broker_order_id, new_price, modified_time, event_id, event_timestamp) ==
    [ cls |-> "OrderModified", symbol |-> symbol, order_id |-> order_id,
      broker_order_id |-> broker_order_id, new_price |-> new_price,
      occurred_timestamp |-> modified_time, event_id |-> event_id,
      event_timestamp |-> event_timestamp ]

\* isinstance(x, Order), isinstance(x, TradeStrategy),
\* isinstance(x, OrderEvent).
IsOrder(x) == x.cls = "Order"
IsTradeStrategy(x) == x.cls = "TradeStrategy"
IsOrderEvent(x) == x.cls \in OrderEventClasses
\* order.symbol and order.id can be read.
HasOrderAttributes(x) == {"id", "symbol"} \subseteq DOMAIN x

\* str(strategy): the strategy's name and label.
StrategyIdOf(strategy) == strategy.name

\* 'B' + order.id
BrokerOrderId(order_id) == "B" \o order_id

(***************************************************************************)
(* State.                                                                  *)
(***************************************************************************)
VARIABLES
    client,                 \* the concrete class of the client
    registered_strategies,  \* self._registered_strategies: id -> strategy whose _update_events is the sink
    order_index,            \* self._order_index: order id -> strategy id
    exec_client_set,        \* strategies on which _register_execution_client(self) was called
    delivered,              \* the sink calls of the last call, in order: <<[strategy, event], ...>>
    submit_working,         \* order id -> broker_order_id of the OrderWorking event submit_order delivered
    call,                   \* the last call: operation, arguments, exception raised ("None": it returned), effects
    contexts,               \* per execution context, the submit_order call it is in and the line it has reached
    terminal_delivered      \* ids of the orders for which a sink has received a terminal event (kept under SpecLife)

vars == <<client, registered_strategies, order_index, exec_client_set, delivered, submit_working, call, contexts, terminal_delivered>>

EmptyMap == [x \in {} |-> x]

\* dict[key] = value
Put(map, key, value) == [k \in DOMAIN map \cup {key} |-> IF k = key THEN value ELSE map[k]]

(***************************************************************************)
(* ExecutionClient.                                                        *)
(***************************************************************************)
\* A register_strategy without the uniqueness check: a second strategy with
\* the same identity replaces the stored sink.
register_strategy_overwrite(regs, ecs, strategy) ==
    IF ~IsTradeStrategy(strategy)
    THEN [ raised |-> "TypeError", registered_strategies |-> regs,
           exec_client_set |-> ecs, effects |-> <<>> ]
    ELSE LET strategy_id == StrategyIdOf(strategy) IN
         [ raised |-> "None",
           registered_strategies |-> Put(regs, strategy_id, strategy),
           exec_client_set |-> ecs \cup {strategy},
           effects |-> << [kind |-> "store_sink", strategy_id |-> strategy_id],
                          [kind |-> "register_execution_client", strategy_id |-> strategy_id] >> ]

\* ExecutionClient.register_strategy(strategy) on the fields regs
\* (_registered_strategies) and ecs (the strategies that were handed this
\* client by _register_execution_client).
register_strategy(regs, ecs, strategy) ==
    IF ~IsTradeStrategy(strategy)
    THEN [ raised |-> "TypeError", registered_strategies |-> regs,
           exec_client_set |-> ecs, effects |-> <<>> ]
    ELSE LET strategy_id == StrategyIdOf(strategy) IN
         IF strategy_id \in DOMAIN regs
         THEN [ raised |-> "ValueError", registered_strategies |-> regs,
                exec_client_set |-> ecs, effects |-> <<>> ]
         ELSE [ raised |-> "None",
                registered_strategies |-> Put(regs, strategy_id, strategy),
                exec_client_set |-> ecs \cup {strategy},
                effects |-> << [kind |-> "store_sink", strategy_id |-> strategy_id],
                               [kind |-> "register_execution_client", strategy_id |-> strategy_id] >> ]

\* A _register_order without the uniqueness check: a second registration of
\* an id remaps it.
register_order_overwrite(idx, order, strategy_id) ==
    IF ~IsOrder(order)
    THEN [ raised |-> "TypeError", order_index |-> idx, effects |-> <<>> ]
    ELSE [ raised |-> "None", order_index |-> Put(idx, order.id, strategy_id),
           effects |-> << [kind |-> "register", order_id |-> order.id,
                           strategy_id |-> strategy_id] >> ]

\* A _register_order that looks the id up before it tests the class of its
\* argument.
register_order_duplicate_first(idx, order, strategy_id) ==
    IF HasOrderAttributes(order) /\ order.id \in DOMAIN idx
    THEN [ raised |-> "ValueError", order_index |-> idx, effects |-> <<>> ]
    ELSE IF ~IsOrder(order)
    THEN [ raised |-> "TypeError", order_index |-> idx, effects |-> <<>> ]
    ELSE [ raised |-> "None", order_index |-> Put(idx, order.id, strategy_id),
           effects |-> << [kind |-> "register", order_id |-> order.id,
                           strategy_id |-> strategy_id] >> ]

\* ExecutionClient._register_order(order, strategy_id) on the field idx
\* (_order_index).
register_order(idx, order, strategy_id) ==
    IF ~IsOrder(order)
    THEN [ raised |-> "TypeError", order_index |-> idx, effects |-> <<>> ]
    ELSE IF order.id \in DOMAIN idx
    THEN [ raised |-> "ValueError", order_index |-> idx, effects |-> <<>> ]
    ELSE [ raised |-> "None", order_index |-> Put(idx, order.id, strategy_id),
           effects |-> << [kind |-> "register", order_id |-> order.id,
                           strategy_id |-> strategy_id] >> ]

\* The sink call self._registered_strategies[strategy_id](event): the
\* strategy's _update_events receives the event.  snk is the list of sink
\* calls made so far.
CallSink(snk, strategy, event) ==
    Append(snk, [strategy |-> strategy, event |-> event])

\* An _on_event that reads self._order_index[order_id] without the
\* membership test.
on_event_unknown_raises(regs, idx, snk, event) ==
    IF IsOrderEvent(event)
    THEN LET order_id == event.order_id IN
         IF order_id \in DOMAIN idx
         THEN LET strategy_id == idx[order_id] IN
              IF strategy_id \in DOMAIN regs
              THEN [ raised |-> "None",
                     sinks |-> CallSink(snk, regs[strategy_id], event),
                     effects |-> << [kind |-> "deliver", strategy_id |-> strategy_id,
                                     order_id |-> order_id, event_cls |-> event.cls] >> ]
              ELSE [ raised |-> "KeyError", sinks |-> snk, effects |-> <<>> ]
         ELSE [ raised |-> "KeyError", sinks |-> snk, effects |-> <<>> ]
    ELSE [ raised |-> "None", sinks |-> snk, effects |-> <<>> ]

\* An _on_event that hands the event to a registered sink without looking
\* the owner up in the order index.
on_event_any_sink(regs, idx, snk, event) ==
    IF IsOrderEvent(event)
    THEN LET order_id == event.order_id IN
         IF order_id \in DOMAIN idx
         THEN IF DOMAIN regs # {}
              THEN LET strategy_id == CHOOSE k \in DOMAIN regs : \A j \in DOMAIN regs : k = j \/ k # idx[order_id]
                   IN [ raised |-> "None",
                        sinks |-> CallSink(snk, regs[strategy_id], event),
                        effects |-> << [kind |-> "deliver", strategy_id |-> strategy_id,
                                        order_id |-> order_id, event_cls |-> event.cls] >> ]
              ELSE [ raised |-> "KeyError", sinks |-> snk, effects |-> <<>> ]
         ELSE [ raised |-> "None", sinks |-> snk,
                effects |-> << [kind |-> "log_warning", order_id |-> order_id] >> ]
    ELSE [ raised |-> "None", sinks |-> snk, effects |-> <<>> ]

\* An _on_event that tracks the lifecycle: an event for an order whose terminal
\* event a sink has already received is logged and dropped.
on_event_drops_after_terminal(regs, idx, snk, event) ==
    IF IsOrderEvent(event)
    THEN LET order_id == event.order_id IN
         IF order_id \in DOMAIN idx /\ order_id \notin terminal_delivered
         THEN LET strategy_id == idx[order_id] IN
              IF strategy_id \in DOMAIN regs
              THEN [ raised |-> "None",
                     sinks |-> CallSink(snk, regs[strategy_id], event),
                     effects |-> << [kind |-> "deliver", strategy_id |-> strategy_id,
                                     order_id |-> order_id, event_cls |-> event.cls] >> ]
              ELSE [ raised |-> "KeyError", sinks |-> snk, effects |-> <<>> ]
         ELSE [ raised |-> "None", sinks |-> snk,
                effects |-> << [kind |-> "log_warning", order_id |-> order_id] >> ]
    ELSE [ raised |-> "None", sinks |-> snk, effects |-> <<>> ]

\* ExecutionClient._on_event(event).  The TypeError of the first check is
\* constructed and never raised, so an object that is no Event falls
\* through to the isinstance(event, OrderEvent) test.
on_event(regs, idx, snk, event) ==
    IF IsOrderEvent(event)
    THEN LET order_id == event.order_id IN
         IF order_id \in DOMAIN idx
         THEN LET strategy_id == idx[order_id] IN
              IF strategy_id \in DOMAIN regs
              THEN [ raised |-> "None",
                     sinks |-> CallSink(snk, regs[strategy_id], event),
                     effects |-> << [kind |-> "deliver", strategy_id |-> strategy_id,
                                     order_id |-> order_id, event_cls |-> event.cls] >> ]
              ELSE [ raised |-> "KeyError", sinks |-> snk, effects |-> <<>> ]
         ELSE [ raised |-> "None", sinks |-> snk,
                effects |-> << [kind |-> "log_warning", order_id |-> order_id] >> ]
    ELSE [ raised |-> "None", sinks |-> snk, effects |-> <<>> ]

(***************************************************************************)
(* MockExecClient.                                                         *)
(***************************************************************************)
\* A submit_order that hands its three events to the handler first and
\* registers the order last.
mock_submit_order_register_last(regs, idx, snk, order, strategy_id, now, ids) ==
    IF ~IsOrder(order)
    THEN [ raised |-> "AttributeError", order_index |-> idx,
           sinks |-> snk, effects |-> <<>>, events |-> <<>> ]
    ELSE
    LET order_submitted == OrderSubmitted(order.symbol, order.id, now[1], ids[1], now[2])
        order_accepted  == OrderAccepted(order.symbol, order.id, now[3], ids[2], now[4])
        order_working   == OrderWorking(order.symbol, order.id, BrokerOrderId(order.id),
                                        now[5], ids[3], now[6])
        r1 == on_event(regs, idx, snk, order_submitted)
        r2 == on_event(regs, idx, r1.sinks, order_accepted)
        r3 == on_event(regs, idx, r2.sinks, order_working)
        reg == register_order(idx, order, strategy_id)
    IN  IF r1.raised # "None"
        THEN [ raised |-> r1.raised, order_index |-> idx, sinks |-> r1.sinks,
               effects |-> r1.effects, events |-> <<>> ]
        ELSE [ raised |-> reg.raised, order_index |-> reg.order_index, sinks |-> r3.sinks,
               effects |-> r1.effects \o r2.effects \o r3.effects \o reg.effects,
               events |-> <<order_submitted, order_accepted, order_working>> ]

\* A submit_order that hands OrderAccepted to the handler before
\* OrderSubmitted.
mock_submit_order_accepted_first(regs, idx, snk, order, strategy_id, now, ids) ==
    LET reg == register_order(idx, order, strategy_id) IN
    IF reg.raised # "None"
    THEN [ raised |-> reg.raised, order_index |-> reg.order_index,
           sinks |-> snk, effects |-> reg.effects, events |-> <<>> ]
    ELSE
    LET idx1 == reg.order_index
        order_submitted == OrderSubmitted(order.symbol, order.id, now[1], ids[1], now[2])
        order_accepted  == OrderAccepted(order.symbol, order.id, now[3], ids[2], now[4])
        order_working   == OrderWorking(order.symbol, order.id, BrokerOrderId(order.id),
                                        now[5], ids[3], now[6])
        r1 == on_event(regs, idx1, snk, order_accepted)
        r2 == on_event(regs, idx1, r1.sinks, order_submitted)
        r3 == on_event(regs, idx1, r2.sinks, order_working)
    IN  IF r1.raised # "None"
        THEN [ raised |-> r1.raised, order_index |-> idx1, sinks |-> r1.sinks,
               effects |-> reg.effects \o r1.effects, events |-> <<>> ]
        ELSE [ raised |-> r3.raised, order_index |-> idx1, sinks |-> r3.sinks,
               effects |-> reg.effects \o r1.effects \o r2.effects \o r3.effects,
               events |-> <<order_accepted, order_submitted, order_working>> ]

\* MockExecClient.submit_order(order, strategy_id).  now[1..6] are the six
\* values utcnow() returns and ids[1..3] the three values uuid4() returns,
\* in the order the method reads them.
mock_submit_order(regs, idx, snk, order, strategy_id, now, ids) ==
    LET reg == register_order(idx, order, strategy_id) IN
    IF reg.raised # "None"
    THEN [ raised |-> reg.raised, order_index |-> reg.order_index,
           sinks |-> snk, effects |-> reg.effects, events |-> <<>> ]
    ELSE
    LET idx1 == reg.order_index
        order_submitted == OrderSubmitted(order.symbol, order.id, now[1], ids[1], now[2])
        order_accepted  == OrderAccepted(order.symbol, order.id, now[3], ids[2], now[4])
        order_working   == OrderWorking(order.symbol, order.id, BrokerOrderId(order.id),
                                        now[5], ids[3], now[6])
        r1 == on_event(regs, idx1, snk, order_submitted)
        r2 == on_event(regs, idx1, r1.sinks, order_accepted)
        r3 == on_event(regs, idx1, r2.sinks, order_working)
    IN  IF r1.raised # "None"
        THEN [ raised |-> r1.raised, order_index |-> idx1, sinks |-> r1.sinks,
               effects |-> reg.effects \o r1.effects, events |-> <<>> ]
        ELSE IF r2.raised # "None"
        THEN [ raised |-> r2.raised, order_index |-> idx1, sinks |-> r2.sinks,
               effects |-> reg.effects \o r1.effects \o r2.effects,
               events |-> <<order_submitted>> ]
        ELSE [ raised |-> r3.raised, order_index |-> idx1, sinks |-> r3.sinks,
               effects |-> reg.effects \o r1.effects \o r2.effects \o r3.effects,
               events |-> IF r3.raised = "None"
                          THEN <<order_submitted, order_accepted, order_working>>
                          ELSE <<order_submitted, order_accepted>> ]

\* A cancel_order that hands its event to the handler twice.
mock_cancel_order_twice(regs, idx, snk, order, now, ids) ==
    IF ~HasOrderAttributes(order)
    THEN [ raised |-> "AttributeError", order_index |-> idx, sinks |-> snk,
           effects |-> <<>> ]
    ELSE
    LET order_cancelled == OrderCancelled(order.symbol, order.id, now[1], ids[1], now[2])
        r1 == on_event(regs, idx, snk, order_cancelled)
        r2 == on_event(regs, idx, r1.sinks, order_cancelled)
    IN  IF r1.raised # "None"
        THEN [ raised |-> r1.raised, order_index |-> idx, sinks |-> r1.sinks,
               effects |-> r1.effects ]
        ELSE [ raised |-> r2.raised, order_index |-> idx, sinks |-> r2.sinks,
               effects |-> r1.effects \o r2.effects ]

\* A cancel_order that evicts the order from the index once its terminal
\* event is out.
mock_cancel_order_evicts(regs, idx, snk, order, now, ids) ==
    IF ~HasOrderAttributes(order)
    THEN [ raised |-> "AttributeError", order_index |-> idx, sinks |-> snk,
           effects |-> <<>> ]
    ELSE
    LET order_cancelled == OrderCancelled(order.symbol, order.id, now[1], ids[1], now[2])
        r == on_event(regs, idx, snk, order_cancelled)
    IN  [ raised |-> r.raised,
          order_index |-> [k \in DOMAIN idx \ {order.id} |-> idx[k]],
          sinks |-> r.sinks, effects |-> r.effects ]

\* MockExecClient.cancel_order(order).  The method does not test the class of
\* its argument: it reads order.symbol and order.id, which None does not have.
mock_cancel_order(regs, idx, snk, order, now, ids) ==
    IF ~HasOrderAttributes(order)
    THEN [ raised |-> "AttributeError", order_index |-> idx, sinks |-> snk,
           effects |-> <<>> ]
    ELSE
    LET order_cancelled == OrderCancelled(order.symbol, order.id, now[1], ids[1], now[2])
        r == on_event(regs, idx, snk, order_cancelled)
    IN  [ raised |-> r.raised, order_index |-> idx, sinks |-> r.sinks,
          effects |-> r.effects ]

\* A modify_order that sends the client order id as the broker order id.
mock_modify_order_raw_id(regs, idx, snk, order, new_price, now, ids) ==
    IF ~HasOrderAttributes(order)
    THEN [ raised |-> "AttributeError", order_index |-> idx, sinks |-> snk,
           effects |-> <<>> ]
    ELSE
    LET order_modified == OrderModified(order.symbol, order.id, order.id,
                                        new_price, now[1], ids[1], now[2])
        r == on_event(regs, idx, snk, order_modified)
    IN  [ raised |-> r.raised, order_index |-> idx, sinks |-> r.sinks,
          effects |-> r.effects ]

\* MockExecClient.modify_order(order, new_price).
mock_modify_order(regs, idx, snk, order, new_price, now, ids) ==
    IF ~HasOrderAttributes(order)
    THEN [ raised |-> "AttributeError", order_index |-> idx, sinks |-> snk,
           effects |-> <<>> ]
    ELSE
    LET order_modified == OrderModified(order.symbol, order.id, BrokerOrderId(order.id),
                                        new_price, now[1], ids[1], now[2])
        r == on_event(regs, idx, snk, order_modified)
    IN  [ raised |-> r.raised, order_index |-> idx, sinks |-> r.sinks,
          effects |-> r.effects ]

(***************************************************************************)
(* LiveExecClient.                                                         *)
(***************************************************************************)
\* LiveExecClient.submit_order(order, strategy_id): registers, then TODO.
live_submit_order(regs, idx, snk, order, strategy_id) ==
    LET reg == register_order(idx, order, strategy_id) IN
    [ raised |-> reg.raised, order_index |-> reg.order_index, sinks |-> snk,
      effects |-> reg.effects ]

\* A LiveExecClient.cancel_order that answers the request itself, as the mock
\* client does.
live_cancel_order_answers(regs, idx, snk, order) ==
    IF ~HasOrderAttributes(order)
    THEN [ raised |-> "AttributeError", order_index |-> idx, sinks |-> snk,
           effects |-> <<>> ]
    ELSE
    LET order_cancelled == OrderCancelled(order.symbol, order.id, 0, 0, 0)
        r == on_event(regs, idx, snk, order_cancelled)
    IN  [ raised |-> r.raised, order_index |-> idx, sinks |-> r.sinks,
          effects |-> r.effects ]

\* LiveExecClient.cancel_order(order): pass.
live_cancel_order(regs, idx, snk, order) ==
    [ raised |-> "None", order_index |-> idx, sinks |-> snk, effects |-> <<>> ]

\* A modify_order that registers the order it is given, as submit_order
\* does.
live_modify_order_registers(regs, idx, snk, order, new_price) ==
    LET reg == register_order(idx, order, "S-1") IN
    [ raised |-> reg.raised, order_index |-> reg.order_index, sinks |-> snk,
      effects |-> reg.effects ]

\* LiveExecClient.modify_order(order, new_price): pass.
live_modify_order(regs, idx, snk, order, new_price) ==
    [ raised |-> "None", order_index |-> idx, sinks |-> snk, effects |-> <<>> ]

(***************************************************************************)
(* Inputs of the actions.                                                  *)
(***************************************************************************)
\* Events a venue (or a test) hands to _on_event: OrderEvent variants for
\* the ids of the orders above and for an id that is never submitted, an
\* Event that is no OrderEvent, and None.
InboundOrderIds == OrderIds \cup {"O-999"}
InboundClasses == {"OrderWorking", "OrderRejected", "OrderCancelled", "OrderExpired"}

VenueEvent(cls, order_id) ==
    CASE cls = "OrderWorking" ->
           [ cls |-> cls, symbol |-> "X", order_id |-> order_id,
             broker_order_id |-> "V-7",
             occurred_timestamp |-> 0, event_id |-> 0, event_timestamp |-> 0 ]
      [] cls = "OrderRejected" ->
           [ cls |-> cls, symbol |-> "X", order_id |-> order_id,
             reason |-> "refused",
             occurred_timestamp |-> 0, event_id |-> 0, event_timestamp |-> 0 ]
      [] OTHER ->
           [ cls |-> cls, symbol |-> "X", order_id |-> order_id,
             occurred_timestamp |-> 0, event_id |-> 0, event_timestamp |-> 0 ]

InboundEvents ==
    { VenueEvent(c, o) : c \in InboundClasses, o \in InboundOrderIds }
    \cup { [cls |-> "Event", occurred_timestamp |-> 0, event_id |-> 0, event_timestamp |-> 0],
           NoneObj }

\* The values n successive utcnow() reads of one call return: the clock
\* stands still during the call, or ticks after the first read.
ClockReads(n) ==
    { [i \in 1..n |-> 0], [i \in 1..n |-> IF i = 1 THEN 0 ELSE 1] }

\* The values n successive uuid4() calls of one call return.
UuidReads(n) == { [i \in 1..n |-> 10 * k + i] : k \in UuidStreams }

\* The execution contexts that may be inside submit_order at the same time,
\* and a context that is in no call.
Contexts == {1, 2}
IdleContext == [pc |-> "idle", order |-> NoneObj, strategy_id |-> "", raised |-> "None"]

(***************************************************************************)
(* Initial state: ExecutionClient.__init__ of either concrete client.      *)
(***************************************************************************)
Init ==
    /\ client \in {"MockExecClient", "LiveExecClient"}
    /\ registered_strategies = EmptyMap
    /\ order_index = EmptyMap
    /\ exec_client_set = {}
    /\ delivered = <<>>
    /\ submit_working = EmptyMap
    /\ call = [op |-> "init", args |-> [none |-> TRUE], raised |-> "None", effects |-> <<>>]
    /\ contexts = [c \in Contexts |-> IdleContext]
    /\ terminal_delivered = {}

(***************************************************************************)
(* Actions: one per operation of the client.                               *)
(***************************************************************************)
RegisterStrategy(strategy) ==
    LET r == register_strategy(registered_strategies, exec_client_set, strategy) IN
    /\ registered_strategies' = r.registered_strategies
    /\ exec_client_set' = r.exec_client_set
    /\ delivered' = <<>>
    /\ call' = [op |-> "register_strategy", args |-> [strategy |-> strategy], raised |-> r.raised, effects |-> r.effects]
    /\ UNCHANGED <<contexts, client, order_index, submit_working>>

MockSubmitOrder(order, strategy_id, now, ids) ==
    LET r == mock_submit_order(registered_strategies, order_index, <<>>,
                               order, strategy_id, now, ids) IN
    /\ client = "MockExecClient"
    /\ order_index' = r.order_index
    /\ delivered' = r.sinks
    /\ submit_working' = IF r.raised = "None"
                         THEN Put(submit_working, order.id, r.events[3].broker_order_id)
                         ELSE submit_working
    /\ call' = [op |-> "submit_order", args |-> [order |-> order, strategy_id |-> strategy_id],
                 raised |-> r.raised, effects |-> r.effects]
    /\ UNCHANGED <<contexts, client, registered_strategies, exec_client_set>>

MockCancelOrder(order, now, ids) ==
    LET r == mock_cancel_order(registered_strategies, order_index, <<>>,
                               order, now, ids) IN
    /\ client = "MockExecClient"
    /\ order_index' = r.order_index
    /\ delivered' = r.sinks
    /\ call' = [op |-> "cancel_order", args |-> [order |-> order], raised |-> r.raised, effects |-> r.effects]
    /\ UNCHANGED <<contexts, client, registered_strategies, exec_client_set, submit_working>>

MockModifyOrder(order, new_price, now, ids) ==
    LET r == mock_modify_order(registered_strategies, order_index, <<>>,
                               order, new_price, now, ids) IN
    /\ client = "MockExecClient"
    /\ order_index' = r.order_index
    /\ delivered' = r.sinks
    /\ call' = [op |-> "modify_order", args |-> [order |-> order, new_price |-> new_price],
                 raised |-> r.raised, effects |-> r.effects]
    /\ UNCHANGED <<contexts, client, registered_strategies, exec_client_set, submit_working>>

LiveSubmitOrder(order, strategy_id) ==
    LET r == live_submit_order(registered_strategies, order_index, <<>>,
                               order, strategy_id) IN
    /\ client = "LiveExecClient"
    /\ order_index' = r.order_index
    /\ delivered' = r.sinks
    /\ call' = [op |-> "submit_order", args |-> [order |-> order, strategy_id |-> strategy_id],
                 raised |-> r.raised, effects |-> r.effects]
    /\ UNCHANGED <<contexts, client, registered_strategies, exec_client_set, submit_working>>

LiveCancelOrder(order) ==
    LET r == live_cancel_order(registered_strategies, order_index, <<>>, order) IN
    /\ client = "LiveExecClient"
    /\ order_index' = r.order_index
    /\ delivered' = r.sinks
    /\ call' = [op |-> "cancel_order", args |-> [order |-> order], raised |-> r.raised, effects |-> r.effects]
    /\ UNCHANGED <<contexts, client, registered_strategies, exec_client_set, submit_working>>

LiveModifyOrder(order, new_price) ==
    LET r == live_modify_order(registered_strategies, order_index, <<>>,
                               order, new_price) IN
    /\ client = "LiveExecClient"
    /\ order_index' = r.order_index
    /\ delivered' = r.sinks
    /\ call' = [op |-> "modify_order", args |-> [order |-> order, new_price |-> new_price],
                 raised |-> r.raised, effects |-> r.effects]
    /\ UNCHANGED <<contexts, client, registered_strategies, exec_client_set, submit_working>>

\* An event arriving at the inbound handler from outside the client.
OnEvent(event) ==
    LET r == on_event(registered_strategies, order_index, <<>>, event) IN
    /\ delivered' = r.sinks
    /\ call' = [op |-> "on_event", args |-> [event |-> event], raised |-> r.raised, effects |-> r.effects]
    /\ UNCHANGED <<contexts, client, registered_strategies, order_index, exec_client_set, submit_working>>

Next ==
    \/ \E strategy \in StrategyArgs :
            RegisterStrategy(strategy) /\ UNCHANGED terminal_delivered
    \/ \E order \in OrderArgs, strategy_id \in StrategyIds,
          now \in ClockReads(6), ids \in UuidReads(3) :
            MockSubmitOrder(order, strategy_id, now, ids) /\ UNCHANGED terminal_delivered
    \/ \E order \in OrderArgs, now \in ClockReads(2), ids \in UuidReads(1) :
            MockCancelOrder(order, now, ids) /\ UNCHANGED terminal_delivered
    \/ \E order \in OrderArgs, new_price \in Prices,
          now \in ClockReads(2), ids \in UuidReads(1) :
            MockModifyOrder(order, new_price, now, ids) /\ UNCHANGED terminal_delivered
    \/ \E order \in OrderArgs, strategy_id \in StrategyIds :
            LiveSubmitOrder(order, strategy_id) /\ UNCHANGED terminal_delivered
    \/ \E order \in OrderArgs :
            LiveCancelOrder(order) /\ UNCHANGED terminal_delivered
    \/ \E order \in OrderArgs, new_price \in Prices :
            LiveModifyOrder(order, new_price) /\ UNCHANGED terminal_delivered
    \/ \E event \in InboundEvents :
            OnEvent(event) /\ UNCHANGED terminal_delivered

Spec == Init /\ [][Next]_vars

(***************************************************************************)
(* Concurrent use.  LiveExecClient is driven from several execution        *)
(* contexts; nothing in ExecutionClient takes a lock, so a context may be  *)
(* suspended between any two lines of _register_order.  Each line that     *)
(* reads or writes _order_index is one step.                               *)
(***************************************************************************)
ConcInit ==
    /\ client = "LiveExecClient"
    /\ registered_strategies = EmptyMap
    /\ order_index = EmptyMap
    /\ exec_client_set = {}
    /\ delivered = <<>>
    /\ submit_working = EmptyMap
    /\ call = [op |-> "init", args |-> [none |-> TRUE], raised |-> "None", effects |-> <<>>]
    /\ contexts = [c \in Contexts |-> IdleContext]
    /\ terminal_delivered = {}

ConcUnchanged ==
    UNCHANGED <<terminal_delivered, client, registered_strategies, exec_client_set, delivered, submit_working, call>>

\* Context c enters LiveExecClient.submit_order(order, strategy_id).
BeginSubmit(c, order, strategy_id) ==
    /\ contexts[c].pc \in {"idle", "done"}
    /\ contexts' = [contexts EXCEPT ![c] = [ pc |-> "check_type", order |-> order,
                                             strategy_id |-> strategy_id, raised |-> "None" ]]
    /\ UNCHANGED order_index
    /\ ConcUnchanged

\* if not isinstance(order, Order): raise TypeError
CheckType(c) ==
    /\ contexts[c].pc = "check_type"
    /\ contexts' = [contexts EXCEPT ![c] =
                        IF ~IsOrder(contexts[c].order)
                        THEN [@ EXCEPT !.pc = "done", !.raised = "TypeError"]
                        ELSE [@ EXCEPT !.pc = "check_member"]]
    /\ UNCHANGED order_index
    /\ ConcUnchanged

\* if order.id in self._order_index.keys(): raise ValueError
CheckMember(c) ==
    /\ contexts[c].pc = "check_member"
    /\ contexts' = [contexts EXCEPT ![c] =
                        IF contexts[c].order.id \in DOMAIN order_index
                        THEN [@ EXCEPT !.pc = "done", !.raised = "ValueError"]
                        ELSE [@ EXCEPT !.pc = "write"]]
    /\ UNCHANGED order_index
    /\ ConcUnchanged

\* self._order_index[order.id] = strategy_id, and the call returns.
WriteIndex(c) ==
    /\ contexts[c].pc = "write"
    /\ order_index' = Put(order_index, contexts[c].order.id, contexts[c].strategy_id)
    /\ contexts' = [contexts EXCEPT ![c] = [@ EXCEPT !.pc = "done"]]
    /\ ConcUnchanged

ConcNext ==
    \/ \E c \in Contexts, order \in OrderArgs, strategy_id \in StrategyIds :
            BeginSubmit(c, order, strategy_id)
    \/ \E c \in Contexts : CheckType(c)
    \/ \E c \in Contexts : CheckMember(c)
    \/ \E c \in Contexts : WriteIndex(c)

SpecConc == ConcInit /\ [][ConcNext]_vars

(***************************************************************************)
(* Order lifecycles.  The same calls, with a record of the orders for      *)
(* which a sink has received a terminal event.  The lifecycle of an order  *)
(* does not depend on its symbol or on what the clock and uuid4() return,  *)
(* so one value of each is used.                                           *)
(***************************************************************************)
TerminalClasses == {"OrderRejected", "OrderCancelled", "OrderExpired"}
TerminalIds(snk) ==
    { snk[i].event.order_id : i \in { j \in 1..Len(snk) : snk[j].event.cls \in TerminalClasses } }

\* The sink calls of the step are added to the record.
RecordTerminal ==
    terminal_delivered' = terminal_delivered \cup TerminalIds(delivered')

LifeOrderArgs == { order \in OrderObjs : order.symbol = "X" } \cup {NoneObj}
LifeClock(n) == [i \in 1..n |-> 0]
LifeUuids(n) == [i \in 1..n |-> 10 + i]

NextLife ==
    \/ \E strategy \in StrategyArgs :
            RegisterStrategy(strategy) /\ RecordTerminal
    \/ \E order \in LifeOrderArgs, strategy_id \in StrategyIds :
            MockSubmitOrder(order, strategy_id, LifeClock(6), LifeUuids(3)) /\ RecordTerminal
    \/ \E order \in LifeOrderArgs :
            MockCancelOrder(order, LifeClock(2), LifeUuids(1)) /\ RecordTerminal
    \/ \E order \in LifeOrderArgs, new_price \in Prices :
            MockModifyOrder(order, new_price, LifeClock(2), LifeUuids(1)) /\ RecordTerminal
    \/ \E order \in LifeOrderArgs, strategy_id \in StrategyIds :
            LiveSubmitOrder(order, strategy_id) /\ RecordTerminal
    \/ \E order \in LifeOrderArgs :
            LiveCancelOrder(order) /\ RecordTerminal
    \/ \E order \in LifeOrderArgs, new_price \in Prices :
            LiveModifyOrder(order, new_price) /\ RecordTerminal
    \/ \E event \in InboundEvents :
            OnEvent(event) /\ RecordTerminal

SpecLife == Init /\ [][NextLife]_vars

(***************************************************************************)
(* Properties.                                                             *)
(***************************************************************************)
\* The sink registered under a strategy identity, and the classes of the
\* events of a list of sink calls.
SinkOf(strategy_id) == registered_strategies[strategy_id]
Classes(snk) == [i \in 1..Len(snk) |-> snk[i].event.cls]

\* C1: on MockExecClient, submit_order(O, S) with S registered and O a valid
\* order whose id is not in the order index returns normally after exactly
\* three sink calls, all on S's sink and all carrying O's id and symbol:
\* OrderSubmitted, OrderAccepted, OrderWorking, in that order.  No other
\* sink is called.
C1_SubmitDeliversThree ==
    [][ ( /\ client = "MockExecClient"
          /\ call'.op = "submit_order"
          /\ IsOrder(call'.args.order)
          /\ call'.args.order.id \notin DOMAIN order_index
          /\ call'.args.strategy_id \in DOMAIN registered_strategies )
        => /\ call'.raised = "None"
           /\ Classes(delivered') = <<"OrderSubmitted", "OrderAccepted", "OrderWorking">>
           /\ \A i \in 1..Len(delivered') :
                /\ delivered'[i].strategy = SinkOf(call'.args.strategy_id)
                /\ delivered'[i].event.order_id = call'.args.order.id
                /\ delivered'[i].event.symbol = call'.args.order.symbol
      ]_vars

\* A submit_order on MockExecClient returned after three sink calls while
\* two strategies were registered.
C1_Witness ==
    /\ client = "MockExecClient"
    /\ call.op = "submit_order"
    /\ call.raised = "None"
    /\ Len(delivered) = 3
    /\ Cardinality(DOMAIN registered_strategies) = 2

\* Every sink call went to the sink registered under the identity the order
\* index holds for the event's order id.
NoLeak ==
    \A i \in 1..Len(delivered) :
        LET d == delivered[i] IN
        /\ d.event.order_id \in DOMAIN order_index
        /\ order_index[d.event.order_id] = StrategyIdOf(d.strategy)
        /\ order_index[d.event.order_id] \in DOMAIN registered_strategies
        /\ SinkOf(order_index[d.event.order_id]) = d.strategy

\* The order index is written by submit_order alone, and the entry it
\* writes maps the order's id to the strategy identity of that call.
IndexWrittenBySubmit ==
    order_index' # order_index
    => /\ call'.op = "submit_order"
       /\ IsOrder(call'.args.order)
       /\ order_index' = Put(order_index, call'.args.order.id, call'.args.strategy_id)

\* C2: no cross-strategy leakage: every event handed to a strategy's sink
\* carries an order id that a submit_order call registered under that
\* strategy's identity.
C2_NoCrossStrategyLeakage ==
    /\ []NoLeak
    /\ [][IndexWrittenBySubmit]_vars

\* An event reached the sink of S-2 for an order of S-2 while S-1 is
\* registered and owns another order.
C2_Witness ==
    /\ Len(delivered) > 0
    /\ StrategyIdOf(delivered[1].strategy) = "S-2"
    /\ "S-1" \in DOMAIN registered_strategies
    /\ \E o \in DOMAIN order_index : order_index[o] = "S-1"

\* C3: a submit_order (on either client) of a valid order whose id is in the
\* order index raises ValueError, the duplicate-order error, and leaves the
\* index as it was; and every submit_order of a valid order leaves the id
\* in the index, mapped to the identity of that call when the id was new.
\* So the second of two calls with one id fails and the id stays mapped to
\* the first call's identity.
C3_DuplicateOrderRejected ==
    [][ ( /\ call'.op = "submit_order"
          /\ IsOrder(call'.args.order) )
        => LET id == call'.args.order.id IN
           /\ id \in DOMAIN order_index
                => /\ call'.raised = "ValueError"
                   /\ order_index' = order_index
           /\ id \notin DOMAIN order_index
                => /\ call'.raised # "ValueError"
                   /\ id \in DOMAIN order_index'
                   /\ order_index'[id] = call'.args.strategy_id
      ]_vars

\* A submit_order failed with ValueError for an id that the index maps to
\* another identity than the one the call gave.
C3_Witness ==
    /\ call.op = "submit_order"
    /\ call.raised = "ValueError"
    /\ order_index[call.args.order.id] # call.args.strategy_id

\* C4: a register_strategy of a strategy whose identity is registered raises
\* ValueError, the duplicate-strategy error, and changes neither the set of
\* registered identities nor the sink bound to any of them.
C4_DuplicateStrategyRejected ==
    [][ ( /\ call'.op = "register_strategy"
          /\ IsTradeStrategy(call'.args.strategy)
          /\ StrategyIdOf(call'.args.strategy) \in DOMAIN registered_strategies )
        => /\ call'.raised = "ValueError"
           /\ registered_strategies' = registered_strategies
           /\ exec_client_set' = exec_client_set
      ]_vars

\* A register_strategy failed with ValueError for a strategy object other
\* than the one registered under its identity.
C4_Witness ==
    /\ call.op = "register_strategy"
    /\ call.raised = "ValueError"
    /\ SinkOf(StrategyIdOf(call.args.strategy)) # call.args.strategy

\* C5: an entry of the order index is never removed and never remapped.
C5_IndexEntriesImmutable ==
    [][ \A id \in DOMAIN order_index :
            /\ id \in DOMAIN order_index'
            /\ order_index'[id] = order_index[id]
      ]_vars

\* The terminal event OrderCancelled was delivered for an order that is in
\* the index.
C5_Witness ==
    /\ Len(delivered) = 1
    /\ delivered[1].event.cls = "OrderCancelled"
    /\ delivered[1].event.order_id \in DOMAIN order_index

\* In a submit_order the registration is the first effect: whatever else
\* the call did (a sink call, a warning) came after the order index was
\* written for the same order.
RegistrationFirst ==
    call.op = "submit_order"
    => \A i \in 1..Len(call.effects) :
          call.effects[i].kind # "register"
          => /\ i > 1
             /\ call.effects[1].kind = "register"
             /\ call.effects[1].order_id = call.effects[i].order_id

\* Every sink call is for an order that is in the order index.
DeliveredAreIndexed ==
    \A i \in 1..Len(delivered) : delivered[i].event.order_id \in DOMAIN order_index

\* A submit_order whose registration fails (malformed order or duplicate
\* id) raises, calls no sink, has no effect and leaves the index alone.
FailedRegistrationSilent ==
    ( /\ call'.op = "submit_order"
      /\ \/ ~IsOrder(call'.args.order)
         \/ call'.args.order.id \in DOMAIN order_index )
    => /\ call'.raised \in {"TypeError", "ValueError"}
       /\ delivered' = <<>>
       /\ call'.effects = <<>>
       /\ order_index' = order_index

\* C6: registration precedes action, on both clients: submit_order writes
\* the order index before it does anything else, an event is only ever
\* delivered for an order that is in the index, and a submit_order whose
\* registration fails produces and delivers no event.
C6_RegistrationPrecedesAction ==
    /\ [](RegistrationFirst /\ DeliveredAreIndexed)
    /\ [][FailedRegistrationSilent]_vars

\* A submit_order on MockExecClient registered the order and then made its
\* three sink calls.
C6_Witness ==
    /\ client = "MockExecClient"
    /\ call.op = "submit_order"
    /\ Len(call.effects) = 4
    /\ call.effects[1].kind = "register"
    /\ call.effects[4].kind = "deliver"

\* An OrderEvent for an id that is not in the order index: no sink call, no
\* exception, both registries as before.
DropUnknown ==
    ( /\ call'.op = "on_event"
      /\ IsOrderEvent(call'.args.event)
      /\ call'.args.event.order_id \notin DOMAIN order_index )
    => /\ call'.raised = "None"
       /\ delivered' = <<>>
       /\ order_index' = order_index
       /\ registered_strategies' = registered_strategies

\* After such a drop, an OrderEvent for a registered order of a registered
\* strategy is handed to the owner's sink, and to it alone.
DeliverAfterDrop ==
    ( /\ call.op = "on_event"
      /\ Len(call.effects) = 1
      /\ call.effects[1].kind = "log_warning"
      /\ call'.op = "on_event"
      /\ IsOrderEvent(call'.args.event)
      /\ call'.args.event.order_id \in DOMAIN order_index
      /\ order_index[call'.args.event.order_id] \in DOMAIN registered_strategies )
    => /\ call'.raised = "None"
       /\ delivered' = << [ strategy |-> SinkOf(order_index[call'.args.event.order_id]),
                            event |-> call'.args.event ] >>

\* C7: an OrderEvent passed to _on_event whose order_id is not in the order
\* index is dropped (no sink call, no exception, registries unchanged), and
\* later events for registered orders are delivered as usual.
C7_UnknownOrderEventDropped ==
    [][DropUnknown /\ DeliverAfterDrop]_vars

\* An OrderEvent for an unknown id was dropped with a warning while an
\* order of a registered strategy is in the index.
C7_Witness ==
    /\ call.op = "on_event"
    /\ call.raised = "None"
    /\ Len(call.effects) = 1
    /\ call.effects[1].kind = "log_warning"
    /\ delivered = <<>>
    /\ \E o \in DOMAIN order_index : order_index[o] \in DOMAIN registered_strategies

\* C8: on MockExecClient, cancel_order(O) for an order whose submit_order
\* delivered its events makes exactly one sink call: an OrderCancelled with
\* O's id, on the sink of the strategy the order was submitted under.
C8_CancelDeliversOne ==
    [][ ( /\ client = "MockExecClient"
          /\ call'.op = "cancel_order"
          /\ IsOrder(call'.args.order)
          /\ call'.args.order.id \in DOMAIN submit_working )
        => /\ call'.raised = "None"
           /\ Len(delivered') = 1
           /\ delivered'[1].strategy = SinkOf(order_index[call'.args.order.id])
           /\ delivered'[1].event.cls = "OrderCancelled"
           /\ delivered'[1].event.order_id = call'.args.order.id
      ]_vars

\* A cancel_order made its single sink call while two strategies were
\* registered.
C8_Witness ==
    /\ client = "MockExecClient"
    /\ call.op = "cancel_order"
    /\ call.raised = "None"
    /\ Len(delivered) = 1
    /\ call.args.order.id \in DOMAIN submit_working
    /\ Cardinality(DOMAIN registered_strategies) = 2

\* C9: on MockExecClient, modify_order(O, P) for an order whose submit_order
\* delivered its events makes exactly one sink call, on the owner's sink:
\* an OrderModified whose new_price is P and whose broker_order_id is the
\* one the OrderWorking event of the submission carried.
C9_ModifyDeliversOne ==
    [][ ( /\ client = "MockExecClient"
          /\ call'.op = "modify_order"
          /\ IsOrder(call'.args.order)
          /\ call'.args.order.id \in DOMAIN submit_working )
        => /\ call'.raised = "None"
           /\ Len(delivered') = 1
           /\ delivered'[1].strategy = SinkOf(order_index[call'.args.order.id])
           /\ delivered'[1].event.cls = "OrderModified"
           /\ delivered'[1].event.order_id = call'.args.order.id
           /\ delivered'[1].event.new_price = call'.args.new_price
           /\ delivered'[1].event.broker_order_id = submit_working[call'.args.order.id]
      ]_vars

\* A modify_order to price 2 made its single sink call.
C9_Witness ==
    /\ client = "MockExecClient"
    /\ call.op = "modify_order"
    /\ call.raised = "None"
    /\ call.args.new_price = 2
    /\ Len(delivered) = 1
    /\ delivered[1].event.cls = "OrderModified"

\* C10: on both clients, cancel_order and modify_order leave the order
\* index and the strategy registry as they were, whatever order they are
\* given.
C10_CancelModifyRegisterNothing ==
    [][ call'.op \in {"cancel_order", "modify_order"}
        => /\ order_index' = order_index
           /\ registered_strategies' = registered_strategies
           /\ exec_client_set' = exec_client_set
      ]_vars

\* LiveExecClient.modify_order was called with an order that was never
\* submitted.
C10_Witness ==
    /\ client = "LiveExecClient"
    /\ call.op = "modify_order"
    /\ IsOrder(call.args.order)
    /\ call.args.order.id \notin DOMAIN order_index

\* Two calls with the same order id that have both returned did not both return
\* normally.
TwoSubmitsOneWinner ==
    \A c1, c2 \in Contexts :
        ( /\ c1 # c2
          /\ contexts[c1].pc = "done"
          /\ contexts[c2].pc = "done"
          /\ IsOrder(contexts[c1].order)
          /\ IsOrder(contexts[c2].order)
          /\ contexts[c1].order.id = contexts[c2].order.id )
        => ~(contexts[c1].raised = "None" /\ contexts[c2].raised = "None")

\* C11: when two execution contexts are in submit_order with the same order
\* id, with the membership check and the write interleaving freely, at most one
\* of the two calls returns normally (the other raises ValueError), and an entry
\* of the order index is never overwritten.
C11_ConcurrentSubmitSafe ==
    /\ []TwoSubmitsOneWinner
    /\ [][ \A id \in DOMAIN order_index : order_index'[id] = order_index[id] ]_vars

\* C12: every OrderEvent passed to _on_event whose order id is in the order
\* index is delivered by that call, once and unchanged, to the sink of the
\* strategy the index names for the id, and the call returns normally; each
\* event being delivered by the call that received it, the events of one order
\* reach the sink in the order they were passed in, with none lost or repeated.
C12_PerOrderDeliveryOrder ==
    [][ ( /\ call'.op = "on_event"
          /\ IsOrderEvent(call'.args.event)
          /\ call'.args.event.order_id \in DOMAIN order_index )
        => /\ call'.raised = "None"
           /\ order_index[call'.args.event.order_id] \in DOMAIN registered_strategies
           /\ delivered' = << [ strategy |-> SinkOf(order_index[call'.args.event.order_id]),
                                event    |-> call'.args.event ] >>
      ]_vars

\* C13: MockExecClient is deterministic.  From the same state and with the same
\* arguments, submit_order, cancel_order and modify_order make the same sink
\* calls with the same events, event_id and timestamps included, whatever
\* utcnow() and uuid4() return during the call (two runs differ in nothing
\* else).
C13_MockDeterministic ==
    client = "MockExecClient" =>
        /\ \A order \in OrderArgs, strategy_id \in StrategyIds :
             \A now1, now2 \in ClockReads(6), ids1, ids2 \in UuidReads(3) :
                mock_submit_order(registered_strategies, order_index, <<>>, order, strategy_id, now1, ids1).sinks
                  = mock_submit_order(registered_strategies, order_index, <<>>, order, strategy_id, now2, ids2).sinks
        /\ \A order \in OrderArgs :
             \A now1, now2 \in ClockReads(2), ids1, ids2 \in UuidReads(1) :
                mock_cancel_order(registered_strategies, order_index, <<>>, order, now1, ids1).sinks
                  = mock_cancel_order(registered_strategies, order_index, <<>>, order, now2, ids2).sinks
        /\ \A order \in OrderArgs, new_price \in Prices :
             \A now1, now2 \in ClockReads(2), ids1, ids2 \in UuidReads(1) :
                mock_modify_order(registered_strategies, order_index, <<>>, order, new_price, now1, ids1).sinks
                  = mock_modify_order(registered_strategies, order_index, <<>>, order, new_price, now2, ids2).sinks

\* C14: in both clients, submit_order of an object that is not an Order raises
\* TypeError, also when the object carries an id that is already in the order
\* index (the class is tested before the id is looked up); the order index is
\* unchanged and no sink is called.
C14_MalformedOrderRejected ==
    [][ ( /\ call'.op = "submit_order"
          /\ ~IsOrder(call'.args.order) )
        => /\ call'.raised = "TypeError"
           /\ order_index' = order_index
           /\ registered_strategies' = registered_strategies
           /\ delivered' = <<>>
      ]_vars

\* A submit_order of a non-Order object whose id is in the order index, under
\* a registered strategy, has raised TypeError.
C14_Witness ==
    /\ call.op = "submit_order"
    /\ call.args.order = DuckOrder
    /\ DuckOrder.id \in DOMAIN order_index
    /\ call.args.strategy_id \in DOMAIN registered_strategies
    /\ call.raised = "TypeError"
    /\ delivered = <<>>

\* C15: in every reachable state, every strategy identity stored as a value
\* in the order index is a key of the strategy registry.
C15_IndexedStrategiesRegistered ==
    \A id \in DOMAIN order_index : order_index[id] \in DOMAIN registered_strategies

\* C16: the events MockExecClient delivers for one order follow the order
\* status state machine; in particular Cancelled is terminal.  For an order
\* whose Submitted, Accepted, Working were delivered by submit_order and whose
\* Cancelled has just been delivered by cancel_order, a further cancel_order or
\* modify_order on that order delivers no event: no second Cancelled and no
\* Modified after the terminal event.
C16_LifecycleRespected ==
    [][ ( /\ client = "MockExecClient"
          /\ call.op = "cancel_order"
          /\ Len(delivered) = 1
          /\ delivered[1].event.order_id \in DOMAIN submit_working
          /\ call'.op \in {"cancel_order", "modify_order"}
          /\ HasOrderAttributes(call'.args.order)
          /\ call'.args.order.id = delivered[1].event.order_id )
        => delivered' = <<>>
      ]_vars

\* C17: an OrderEvent of any class passed to _on_event for an order for which a
\* sink has already received a terminal event (OrderRejected, OrderCancelled or
\* OrderExpired) is delivered: the call returns normally after exactly one
\* sink call, with that event, on the sink of the strategy the order index
\* names for the order.
C17_DeliveredAfterTerminal ==
    [][ ( /\ call'.op = "on_event"
          /\ IsOrderEvent(call'.args.event)
          /\ call'.args.event.order_id \in terminal_delivered )
        => /\ call'.raised = "None"
           /\ call'.args.event.order_id \in DOMAIN order_index
           /\ order_index[call'.args.event.order_id] \in DOMAIN registered_strategies
           /\ delivered' = << [ strategy |-> SinkOf(order_index[call'.args.event.order_id]),
                                event    |-> call'.args.event ] >>
      ]_vars

\* An OrderWorking event, which is not terminal, has been delivered by _on_event
\* for an order whose terminal event a sink had received before.
C17_Witness ==
    /\ call.op = "on_event"
    /\ IsOrderEvent(call.args.event)
    /\ call.args.event.cls = "OrderWorking"
    /\ call.args.event.order_id \in terminal_delivered
    /\ Len(delivered) = 1
    /\ delivered[1].event = call.args.event

\* C18: a MockExecClient.submit_order call that ends in an error, whatever
\* the error, leaves the order index and the strategy registry as they were
\* before the call (so that the order's id, if it was not in the index before,
\* is still free).
C18_FailedSubmitChangesNothing ==
    [][ ( /\ client = "MockExecClient"
          /\ call'.op = "submit_order"
          /\ call'.raised # "None" )
        => /\ order_index' = order_index
           /\ registered_strategies' = registered_strategies
      ]_vars

\* The call made no sink call, raised nothing and left the order index, the
\* strategy registry and the strategies' client references as they were.
SilentNoOp ==
    /\ call'.raised = "None"
    /\ delivered' = <<>>
    /\ order_index' = order_index
    /\ registered_strategies' = registered_strategies
    /\ exec_client_set' = exec_client_set

\* C19: on MockExecClient, cancel_order and modify_order of an order whose id
\* is not in the order index make no sink call, raise nothing and change no
\* registry; on LiveExecClient the same holds for every cancel_order and
\* modify_order call; and LiveExecClient.submit_order never makes a sink call,
\* while it registers a valid order with a new id under the given strategy id.
C19_SilentCalls ==
    [][ /\ ( /\ client = "MockExecClient"
             /\ call'.op \in {"cancel_order", "modify_order"}
             /\ HasOrderAttributes(call'.args.order)
             /\ call'.args.order.id \notin DOMAIN order_index )
           => SilentNoOp
        /\ ( /\ client = "LiveExecClient"
             /\ call'.op \in {"cancel_order", "modify_order"} )
           => SilentNoOp
        /\ ( /\ client = "LiveExecClient"
             /\ call'.op = "submit_order" )
           => /\ delivered' = <<>>
              /\ registered_strategies' = registered_strategies
              /\ ( IsOrder(call'.args.order) /\ call'.args.order.id \notin DOMAIN order_index )
                 => /\ call'.raised = "None"
                    /\ order_index' = Put(order_index, call'.args.order.id, call'.args.strategy_id)
      ]_vars

\* On LiveExecClient, a cancel_order of an order that is in the index under a
\* registered strategy has returned without a sink call.
C19_Witness ==
    /\ client = "LiveExecClient"
    /\ call.op = "cancel_order"
    /\ IsOrder(call.args.order)
    /\ call.args.order.id \in DOMAIN order_index
    /\ order_index[call.args.order.id] \in DOMAIN registered_strategies
    /\ call.raised = "None"
    /\ delivered = <<>>

====
